---------------------------- MODULE Spec2Model ----------------------------
(***************************************************************************)
(* myFlix API (souravdas090300/movieFlix_api): the user, favourites and    *)
(* login routes of the four revisions of the service found in the source   *)
(* tree, over one document store.                                          *)
(*                                                                         *)
(*   rev "A"  src/index.js lines    1 ..  278                              *)
(*   rev "B"  src/index.js lines  279 ..  654                              *)
(*   rev "C"  src/index.js lines  655 .. 1591                              *)
(*   rev "D"  src/unnamed/part_001                                         *)
(*                                                                         *)
(* passport.js (the local and JWT strategies) and models.js (the schema,   *)
(* hashPassword, validatePassword) are not in the source tree; they are    *)
(* modelled from spec.md sections 3, 4.1 and 4.3.                          *)
(***************************************************************************)
EXTENDS Integers, Sequences, FiniteSets, TLC

VARIABLES rev, users, nextId, tokens, now, writes, last, reg, fav, movies, query

vars ==
  <<rev, users, nextId, tokens, now, writes, last, reg, fav, movies, query>>

-----------------------------------------------------------------------------
(* Bounds of the model *)

\* registrations that may succeed in one behaviour
MaxUsers == 2
\* successful store mutations in one behaviour
MaxWrites == 2
\* tokens clients hold at once
MaxTokens == 2
\* days the clock runs for, one more than a token lives
MaxTime == 8
\* POST /users requests in progress at once
MaxClients == 2

-----------------------------------------------------------------------------
(* Values *)

Revisions == {"A", "B", "C", "D"}

\* a field the request does not carry
NoValue == <<"undefined">>
NoToken == [kind |-> "none"]

\* strings the validators look into are sequences of characters
Alice     == <<"a", "l", "i", "c", "e">>
Bobby     == <<"b", "o", "b", "b", "y">>
AdminName == <<"a", "d", "m", "i", "n">>
ShortName == <<"a", "l">>
BadName   == <<"a", "l", "_", "c", "e">>

Mail1   == <<"a", "@", "x", ".", "c">>
Mail2   == <<"b", "@", "x", ".", "c">>
BadMail == <<"a", "x", ".", "c">>

Day1 == <<"2000-10-14">>

Pw1   == <<"p", "w", "1">>
Pw2   == <<"p", "w", "2">>
NoPw  == <<>>

Movie1   == "684026918dda30a4fe6c4bd8"
Movie2   == "684026918dda30a4fe6c4bd9"
BadMovie == "xyz"
MongoIds == {Movie1, Movie2}

Letters == {"a", "b", "c", "d", "e", "i", "l", "m", "n", "o", "x", "y"}
Digits  == {"0", "1", "2"}

jwtSecret   == "your_jwt_secret"
otherSecret == "another_secret"
\* expiresIn: "7d", in days
TokenLifetime == 7
\* isLength({ min: 5 })
MinUsernameLen == 5


-----------------------------------------------------------------------------
(* express-validator checks *)

\* a field that is absent is validated as the empty string
FieldValue(v) == IF v = NoValue THEN <<>> ELSE v

isLength(v, min) == Len(FieldValue(v)) >= min

isAlphanumeric(v) ==
  /\ Len(FieldValue(v)) > 0
  /\ \A i \in 1..Len(FieldValue(v)) : FieldValue(v)[i] \in Letters \cup Digits

notEmpty(v) == Len(FieldValue(v)) > 0

\* one "@" with a local part before it and a dotted domain after it
isEmail(v) ==
  LET s == FieldValue(v)
      ats == {i \in 1..Len(s) : s[i] = "@"}
  IN  /\ Cardinality(ats) = 1
      /\ \E a \in ats :
           /\ a > 1
           /\ \A i \in 1..(a - 1) : s[i] \in Letters \cup Digits
           /\ \E d \in (a + 2)..(Len(s) - 1) :
                /\ s[d] = "."
                /\ \A i \in ((a + 1)..Len(s)) \ {d} : s[i] \in Letters \cup Digits

isMongoId(v) == v \in MongoIds

\* check('Username')...check('Email') of POST /users and PUT /users/:Username
UserBodyValid(body) ==
  /\ isLength(body.Username, MinUsernameLen)
  /\ isAlphanumeric(body.Username)
  /\ notEmpty(body.Password)
  /\ isEmail(body.Email)

-----------------------------------------------------------------------------
(* models.js: password hashing and the serialised form of a user *)

\* A stored Password is a string: the bcrypt hash of p, or p itself.
\* bcrypt is one-way: "of" is read by compare alone.
hashPassword(p) == [alg |-> "bcrypt", of |-> p]

Plain(p) == [alg |-> "none", of |-> p]

IsHash(stored) == stored.alg = "bcrypt"

\* bcrypt.compareSync(password, this.Password): false on a stored value that
\* is no bcrypt hash
validatePassword(user, p) ==
  /\ IsHash(user.Password)
  /\ user.Password.of = p

\* the user as sent to a client: the identity minus the password hash
toJSON(user) ==
  [f \in (DOMAIN user) \ {"Password"} |-> user[f]]

-----------------------------------------------------------------------------
(* The Users collection *)

Matching(store, name) == {u \in store : u.Username = name}

HasUser(store, name) == Matching(store, name) # {}

\* Users.findOne({ Username: name }); call only when HasUser
findOne(store, name) ==
  CHOOSE u \in Matching(store, name) :
    \A v \in Matching(store, name) : u._id <= v._id

\* a collection without the index
DuplicateKey_NoIndex(store, id, name) == FALSE

\* the unique index on Username: a write that would give two documents the
\* same Username is refused with duplicate-key error 11000
DuplicateKey(store, id, name) == \E u \in store : u._id # id /\ u.Username = name

NewUser(id, fields) ==
  [_id |-> id, Username |-> fields.Username, Password |-> fields.Password,
   Email |-> fields.Email, Birthday |-> fields.Birthday,
   FavoriteMovies |-> fields.FavoriteMovies, isAdmin |-> FALSE]

\* $set of the four profile fields
SetProfile(u, fields) ==
  [u EXCEPT !.Username = fields.Username, !.Password = fields.Password,
            !.Email = fields.Email, !.Birthday = fields.Birthday]

InSeq(s, x) == \E i \in 1..Len(s) : s[i] = x

\* $addToSet: append unless present
addToSet(s, x) == IF InSeq(s, x) THEN s ELSE Append(s, x)

\* $pull: remove every occurrence
pull(s, x) == SelectSeq(s, LAMBDA y : y # x)

Replace(store, old, new) == (store \ {old}) \cup {new}


-----------------------------------------------------------------------------
(* passport.js: the two strategies *)

\* LocalStrategy({ usernameField: "Username", passwordField: "Password" }):
\* the user, or false with the reason
LocalStrategy(store, username, password) ==
  IF ~notEmpty(username) \/ ~notEmpty(password)
    THEN [ok |-> FALSE, info |-> "Missing credentials"]
  ELSE IF ~HasUser(store, username)
    THEN [ok |-> FALSE, info |-> "Incorrect username"]
  ELSE IF ~validatePassword(findOne(store, username), password)
    THEN [ok |-> FALSE, info |-> "Incorrect password"]
  ELSE [ok |-> TRUE, user |-> findOne(store, username)]

\* jsonwebtoken's verify: "jwt expired" once the clock has reached exp
Expired(tok, t) == t >= tok.exp

\* JWTStrategy: bearer token, signature, expiry, then the subject looked up
\* in the store
JWTFailure(store, tok, t) ==
  IF tok = NoToken THEN "MissingToken"
  ELSE IF tok.sig # jwtSecret THEN "InvalidSignature"
  ELSE IF Expired(tok, t) THEN "Expired"
  ELSE IF ~HasUser(store, tok.sub) THEN "UnknownSubject"
  ELSE "none"

Authenticated(store, tok, t) == JWTFailure(store, tok, t) = "none"

\* req.user; call only when Authenticated
JWTUser(store, tok) == findOne(store, tok.sub)

-----------------------------------------------------------------------------
(* auth.js *)

\* a token that lives a day longer
generateJWTToken_EightDays(user, t) ==
  [kind |-> "jwt", sub |-> user.Username, payload |-> user, iat |-> t,
   exp |-> t + TokenLifetime + 1, sig |-> jwtSecret]

\* the subject taken from another field of the user
generateJWTToken_EmailSubject(user, t) ==
  [kind |-> "jwt", sub |-> user.Email, payload |-> user, iat |-> t,
   exp |-> t + TokenLifetime, sig |-> jwtSecret]

\* jwt.sign(user, jwtSecret, { subject: user.Username, expiresIn: "7d" });
\* the payload is the user object handed in, readable by whoever holds the
\* token
generateJWTToken(user, t) ==
  [kind |-> "jwt", sub |-> user.Username, payload |-> user, iat |-> t,
   exp |-> t + TokenLifetime, sig |-> jwtSecret]


-----------------------------------------------------------------------------
(* Responses *)

\* what a handler does to the response and the store: the status and body the
\* client receives, the store after it, the stages gone through, the tokens
\* handed out and how many times the handler sent a response
Reply(status, body, store, steps) ==
  [status |-> status, body |-> body, users |-> store, steps |-> steps,
   issued |-> {}, sends |-> 1]

Text(msg) == [kind |-> "text", msg |-> msg]

ErrorBody(msg) == [kind |-> "error", msg |-> msg]

\* the stored document sent as it is
UserBody_Raw(user) == [kind |-> "user", user |-> user]

\* res.json(user): the document, or null when the query matched none
UserBody(user) == [kind |-> "user", user |-> toJSON(user)]

NullBody == [kind |-> "null"]

\* the gate answering as the ownership checks do
Unauthorized_AsForbidden ==
  Reply(403, ErrorBody("Forbidden"), users, <<"authenticate">>)

\* passport.authenticate("jwt", { session: false }) refusing the request
Unauthorized == Reply(401, Text("Unauthorized"), users, <<"authenticate">>)

\* res.status(422).json({ errors: errors.array() })
Invalid(steps) == Reply(422, [kind |-> "errors"], users, steps)

\* no route of the revision matches: express's own 404
NoRoute == Reply(404, Text("Cannot"), users, <<>>)

-----------------------------------------------------------------------------
(* The inline ownership checks *)

\* req.user.Username !== req.params.username && !req.user.isAdmin
OwnerOrAdmin(user, target) == user.Username = target \/ user.isAdmin

\* req.user.Username !== req.params.Username
OwnerOnly(user, target) == user.Username = target

\* PUT /users/:Username
MayUpdate(user, target) ==
  IF rev = "A" THEN OwnerOrAdmin(user, target) ELSE OwnerOnly(user, target)

\* POST and DELETE /users/:username/movies/:movieId
MayEditFavorites(user, target) ==
  IF rev = "A" THEN OwnerOrAdmin(user, target) ELSE OwnerOnly(user, target)

\* GET /users/:username, GET /users/:username/favorites
MayView(user, target) == OwnerOrAdmin(user, target)

\* the check left out: every authenticated requester may delete
MayDelete_Unchecked(user, target) == TRUE

\* DELETE /users/:username
MayDelete(user, target) == OwnerOrAdmin(user, target)

\* GET /users: revision A asks for isAdmin, the others for nothing
MayListUsers(user) == IF rev = "A" THEN user.isAdmin ELSE TRUE

\* the status PUT /users/:Username answers a refused requester with
UpdateDeniedStatus == IF rev = "A" THEN 403 ELSE 400

UpdateDeniedBody ==
  IF rev = "A" THEN ErrorBody("Forbidden: Cannot update other users")
  ELSE IF rev = "C" THEN ErrorBody("Permission denied")
  ELSE Text("Permission denied")

\* res.status(403) of the other routes
Forbidden(steps) == Reply(403, ErrorBody("Forbidden"), users, steps)


-----------------------------------------------------------------------------
(* Route handlers of index.js.  Each gives the response, the store after   *)
(* it and the stages the request went through, in order:                   *)
(*   "authenticate"  passport.authenticate("jwt") ran                      *)
(*   "handler"       the route's own function was entered                  *)
(*   "validate"      validationResult(req) was consulted                   *)
(*   "authorize"     the ownership / admin check was evaluated             *)
(*   "find" "create" "update" "delete"   a call on the Users collection    *)
(*   "movies"        a call on the Movies collection                       *)

\* revisions whose user routes carry express-validator checks
Validates == rev \in {"A", "C"}

\* GET /users
GetUsers(tok) ==
  IF ~Authenticated(users, tok, now) THEN Unauthorized
  ELSE IF ~MayListUsers(JWTUser(users, tok))
    THEN Reply(403, ErrorBody("Forbidden: Admin access required"), users,
               <<"authenticate", "handler", "authorize">>)
  ELSE Reply(200, [kind |-> "users", users |-> {toJSON(u) : u \in users}],
             users,
             IF rev = "A" THEN <<"authenticate", "handler", "authorize", "find">>
             ELSE <<"authenticate", "handler", "find">>)

\* the document POST /users creates from the request body
RegisterFields(body) ==
  IF rev = "D"
    THEN [Username |-> body.Username, Password |-> hashPassword(body.Password),
          Email |-> body.Email, Birthday |-> NoValue,
          FavoriteMovies |-> IF body.FavoriteMovies = NoValue THEN <<>>
                             ELSE body.FavoriteMovies]
    ELSE [Username |-> body.Username, Password |-> hashPassword(body.Password),
          Email |-> body.Email, Birthday |-> body.Birthday,
          FavoriteMovies |-> <<>>]

\* Users.create(...) answered 201
Created(body, steps) ==
  Reply(201, UserBody(NewUser(nextId, RegisterFields(body))),
        users \cup {NewUser(nextId, RegisterFields(body))}, steps)

\* POST /users
PostUsers(body) ==
  IF rev = "A" THEN
    IF ~UserBodyValid(body) THEN Invalid(<<"handler", "validate">>)
    ELSE IF DuplicateKey(users, nextId, body.Username)
      THEN Reply(400, ErrorBody("Username already exists"), users,
                 <<"handler", "validate", "create">>)
    ELSE Created(body, <<"handler", "validate", "create">>)
  ELSE IF rev \in {"B", "C"} THEN
    IF ~UserBodyValid(body) THEN Invalid(<<"handler", "validate">>)
    ELSE IF HasUser(users, body.Username)
      THEN Reply(400, IF rev = "C" THEN ErrorBody("already exists")
                      ELSE Text("already exists"),
                 users, <<"handler", "validate", "find">>)
    ELSE Created(body, <<"handler", "validate", "find", "create">>)
  ELSE
    IF HasUser(users, body.Username)
      THEN Reply(400, Text("already exists"), users, <<"handler", "find">>)
    ELSE Created(body, <<"handler", "find", "create">>)

\* the Password PUT /users/:Username stores
UpdatedPassword(p) ==
  IF rev \in {"B", "D"} THEN Plain(p) ELSE hashPassword(p)

\* the validators of PUT /users/:Username see Username in the URL and in the
\* body, and both must pass
UpdateValid(target, body) ==
  /\ UserBodyValid(body)
  /\ isLength(target, MinUsernameLen)
  /\ isAlphanumeric(target)

\* the update on a collection that accepts any Username
UpdateProfile_AnyUsername(target, body, steps) ==
  IF ~HasUser(users, target) THEN Reply(200, NullBody, users, steps)
  ELSE
    LET old == findOne(users, target)
        new == SetProfile(old, [Username |-> body.Username,
                                Password |-> UpdatedPassword(body.Password),
                                Email |-> body.Email,
                                Birthday |-> body.Birthday])
    IN  Reply(200, UserBody(new), Replace(users, old, new), steps)

\* Users.findOneAndUpdate({ Username: target }, <the four fields>, { new: true })
UpdateProfile(target, body, steps) ==
  IF ~HasUser(users, target) THEN Reply(200, NullBody, users, steps)
  ELSE
    LET old == findOne(users, target)
        new == SetProfile(old, [Username |-> body.Username,
                                Password |-> UpdatedPassword(body.Password),
                                Email |-> body.Email,
                                Birthday |-> body.Birthday])
    IN  IF DuplicateKey(users, old._id, body.Username)
          THEN Reply(500, ErrorBody("E11000 duplicate key"), users, steps)
          ELSE Reply(200, UserBody(new), Replace(users, old, new), steps)

\* PUT /users/:Username with the update ahead of the ownership check
PutUser_UpdateFirst(tok, target, body) ==
  IF ~Authenticated(users, tok, now) THEN Unauthorized
  ELSE IF Validates /\ ~UpdateValid(target, body)
    THEN Invalid(<<"authenticate", "handler", "validate">>)
  ELSE
    LET pre == IF Validates THEN <<"authenticate", "handler", "validate", "update">>
               ELSE <<"authenticate", "handler", "update">>
        done == UpdateProfile(target, body, Append(pre, "authorize"))
    IN  IF ~MayUpdate(JWTUser(users, tok), target)
          THEN Reply(UpdateDeniedStatus, UpdateDeniedBody, done.users,
                     Append(pre, "authorize"))
          ELSE done

\* PUT /users/:Username with the ownership check ahead of validationResult
PutUser_AuthorizeFirst(tok, target, body) ==
  IF ~Authenticated(users, tok, now) THEN Unauthorized
  ELSE IF ~MayUpdate(JWTUser(users, tok), target)
    THEN Reply(UpdateDeniedStatus, UpdateDeniedBody, users,
               <<"authenticate", "handler", "authorize">>)
  ELSE IF Validates /\ ~UpdateValid(target, body)
    THEN Invalid(<<"authenticate", "handler", "authorize", "validate">>)
  ELSE UpdateProfile(target, body,
                     <<"authenticate", "handler", "authorize", "validate", "update">>)

\* PUT /users/:Username
PutUser(tok, target, body) ==
  IF ~Authenticated(users, tok, now) THEN Unauthorized
  ELSE IF Validates /\ ~UpdateValid(target, body)
    THEN Invalid(<<"authenticate", "handler", "validate">>)
  ELSE
    LET pre == IF Validates THEN <<"authenticate", "handler", "validate", "authorize">>
               ELSE <<"authenticate", "handler", "authorize">>
    IN  IF ~MayUpdate(JWTUser(users, tok), target)
          THEN Reply(UpdateDeniedStatus, UpdateDeniedBody, users, pre)
          ELSE UpdateProfile(target, body, Append(pre, "update"))

\* GET /users/:username
GetUser(tok, target) ==
  IF rev = "A" THEN NoRoute
  ELSE IF ~Authenticated(users, tok, now) THEN Unauthorized
  ELSE
    LET pre == IF rev = "C" THEN <<"authenticate", "handler", "validate", "authorize">>
               ELSE <<"authenticate", "handler", "authorize">>
    IN  IF ~MayView(JWTUser(users, tok), target) THEN Forbidden(pre)
        ELSE IF ~HasUser(users, target)
          THEN Reply(404, ErrorBody("User not found"), users, Append(pre, "find"))
        ELSE Reply(200, UserBody(findOne(users, target)), users,
                   Append(pre, "find"))

\* GET /users/:username/favorites
GetFavorites(tok, target) ==
  IF rev # "C" THEN NoRoute
  ELSE IF ~Authenticated(users, tok, now) THEN Unauthorized
  ELSE
    LET pre == <<"authenticate", "handler", "validate", "authorize">>
    IN  IF ~MayView(JWTUser(users, tok), target) THEN Forbidden(pre)
        ELSE IF ~HasUser(users, target)
          THEN Reply(404, ErrorBody("User not found"), users, Append(pre, "find"))
        ELSE Reply(200,
                   [kind |-> "favorites",
                    username |-> findOne(users, target).Username,
                    favoriteMovies |-> findOne(users, target).FavoriteMovies,
                    count |-> Len(findOne(users, target).FavoriteMovies)],
                   users, Append(pre, "find"))

\* Users.findOneAndUpdate({ Username: target }, { $addToSet | $pull }, { new: true })
UpdateFavorites(target, movie, op, steps) ==
  IF ~HasUser(users, target)
    THEN IF rev = "A" THEN Reply(200, NullBody, users, steps)
         ELSE Reply(404, ErrorBody("User not found"), users, steps)
  ELSE
    LET old == findOne(users, target)
        new == [old EXCEPT !.FavoriteMovies =
                  IF op = "$addToSet" THEN addToSet(old.FavoriteMovies, movie)
                  ELSE pull(old.FavoriteMovies, movie)]
    IN  Reply(200, UserBody(new), Replace(users, old, new), steps)

\* the part POST and DELETE /users/:username/movies/:movieId share
EditFavorites(tok, target, movie, op) ==
  IF ~Authenticated(users, tok, now) THEN Unauthorized
  ELSE IF Validates /\ ~isMongoId(movie)
    THEN Invalid(<<"authenticate", "handler", "validate">>)
  ELSE
    LET pre == IF Validates THEN <<"authenticate", "handler", "validate", "authorize">>
               ELSE <<"authenticate", "handler", "authorize">>
    IN  IF ~MayEditFavorites(JWTUser(users, tok), target) THEN Forbidden(pre)
        ELSE UpdateFavorites(target, movie, op, Append(pre, "update"))

\* POST /users/:username/movies/:movieId
AddFavorite(tok, target, movie) ==
  EditFavorites(tok, target, movie, "$addToSet")

\* DELETE /users/:username/movies/:movieId
RemoveFavorite(tok, target, movie) ==
  EditFavorites(tok, target, movie, "$pull")

\* DELETE /users/:username
DeleteUser(tok, target) ==
  IF ~Authenticated(users, tok, now) THEN Unauthorized
  ELSE
    LET pre == IF Validates THEN <<"authenticate", "handler", "validate", "authorize">>
               ELSE <<"authenticate", "handler", "authorize">>
    IN  IF ~MayDelete(JWTUser(users, tok), target) THEN Forbidden(pre)
        ELSE IF ~HasUser(users, target)
          THEN IF rev = "A"
                 THEN Reply(200, [kind |-> "message", msg |-> "was deleted"],
                            users, Append(pre, "delete"))
                 ELSE Reply(404, ErrorBody("User not found"), users,
                            Append(pre, "delete"))
        ELSE Reply(200, [kind |-> "message", msg |-> "was deleted"],
                   users \ {findOne(users, target)}, Append(pre, "delete"))


-----------------------------------------------------------------------------
(* auth.js: POST /login *)

\* the strategy's reason passed on to the client
LoginFailed_Leaky(result) ==
  Reply(400, [kind |-> "loginError", message |-> result.info, user |-> FALSE],
        users, <<"handler", "local">>)

\* the 400 of a failed login: { message, user }
LoginFailed(result) ==
  Reply(400, [kind |-> "loginError", message |-> "Something is not right",
              user |-> FALSE],
        users, <<"handler", "local">>)

\* res.json({ user, token })
LoginBody(user, tok) == [kind |-> "login", user |-> toJSON(user), token |-> tok]

\* the callback of req.login called with an error: res.send(error) goes out,
\* the callback runs on, signs a token and calls res.json on the response
\* already sent, which throws; the client has the first response and no
\* token
LoginError ==
  [Reply(200, [kind |-> "reqLoginError"], users,
         <<"handler", "local", "loginError", "sign">>)
     EXCEPT !.sends = 2]

\* POST /login; loginError is whether req.login calls back with an error
Login(username, password, loginError) ==
  LET result == LocalStrategy(users, username, password)
  IN  IF ~result.ok THEN LoginFailed(result)
      ELSE IF loginError THEN LoginError
      ELSE LET token == generateJWTToken(toJSON(result.user), now)
           IN  [Reply(200, LoginBody(result.user, token),
                      users, <<"handler", "local", "sign">>)
                  EXCEPT !.issued = {token}]

-----------------------------------------------------------------------------
(* The routes over the Movies collection, and GET / *)

CatalogRoutesA ==
  {"/movies", "/movies/:title", "/genres", "/genres/:name", "/directors/:name"}

CatalogRoutesB == CatalogRoutesA \cup {"/actors", "/actresses"}

CatalogRoutesC ==
  CatalogRoutesB \cup
  {"/movies/id/:id", "/movies/featured", "/movies/genre/:genre", "/search",
   "/search/movies", "/search/genres", "/search/directors", "/search/actors",
   "/search/advanced", "/search/suggestions", "/search/quick",
   "/search/paginated"}

\* the GET routes on Movies the revision registers
CatalogRoutes ==
  IF rev = "A" THEN CatalogRoutesA
  ELSE IF rev = "C" THEN CatalogRoutesC
  ELSE CatalogRoutesB

\* whether the route is registered with passport.authenticate("jwt")
RouteHasAuth(route) == ~(rev = "B" /\ route = "/movies")

\* GET on a Movies route, for a request its validators accept
Catalog(route, tok) ==
  IF route \notin CatalogRoutes THEN NoRoute
  ELSE IF RouteHasAuth(route)
    THEN IF ~Authenticated(users, tok, now) THEN Unauthorized
         ELSE Reply(200, [kind |-> "movies"], users,
                    <<"authenticate", "handler", "movies">>)
  ELSE Reply(200, [kind |-> "movies"], users, <<"handler", "movies">>)

\* GET /
Root == Reply(200, Text("Welcome to myFlix API!"), users, <<"handler">>)


-----------------------------------------------------------------------------
(* Requests the clients send *)

\* an account with isAdmin set, which no route can create: it is put into
\* the database directly
AdminUser ==
  [_id |-> 0, Username |-> AdminName, Password |-> hashPassword(Pw1),
   Email |-> Mail1, Birthday |-> NoValue, FavoriteMovies |-> <<>>,
   isAdmin |-> TRUE]

\* a token signed with a key that is not the server's
ForgedToken ==
  [kind |-> "jwt", sub |-> AdminName, payload |-> toJSON(AdminUser), iat |-> 0,
   exp |-> TokenLifetime, sig |-> otherSecret]

TokenInputs == tokens \cup {NoToken, ForgedToken}

Targets == {Alice, Bobby, AdminName}

Body(name, pw, mail, day, favs) ==
  [Username |-> name, Password |-> pw, Email |-> mail, Birthday |-> day,
   FavoriteMovies |-> favs]

\* bodies each of which fails one check of the validators
InvalidBodies ==
  { Body(ShortName, Pw1, Mail1, Day1, NoValue),
    Body(BadName, Pw1, Mail1, Day1, NoValue),
    Body(Alice, NoPw, Mail1, Day1, NoValue),
    Body(Bobby, Pw2, BadMail, Day1, NoValue) }

\* where no validator is in place, one body that fails all of them
UncheckedBody == Body(ShortName, NoPw, BadMail, Day1, <<Movie1>>)

\* the first body names a list of favorites, one movie twice, which only the
\* registration that reads FavoriteMovies from the body stores
RegisterBodies ==
  { Body(Alice, Pw1, Mail1, Day1, <<Movie1, Movie1>>),
    Body(Bobby, Pw2, Mail2, NoValue, NoValue),
    Body(AdminName, Pw2, Mail2, Day1, NoValue) }
  \cup (IF rev = "D" THEN {UncheckedBody} ELSE InvalidBodies)

UpdateBodies ==
  { Body(Alice, Pw2, Mail2, Day1, NoValue),
    Body(Bobby, Pw1, Mail1, Day1, NoValue) }
  \cup (IF Validates THEN InvalidBodies ELSE {UncheckedBody})

\* a movie id the validators refuse is sent only where they are in place
MovieInputs == MongoIds \cup (IF Validates THEN {BadMovie} ELSE {})

LoginNames == {Alice, Bobby, AdminName, NoValue}

LoginPasswords == {Pw1, Pw2, NoValue}

Nobody == [_id |-> -1, Username |-> NoValue, isAdmin |-> FALSE]

\* whether the user a token was issued to, the _id of its payload, still has
\* a record
OwnerLives(store, tok) ==
  /\ tok # NoToken
  /\ \E u \in store : u._id = tok.payload._id

\* who the presented token authenticates as
Bearer(tok) ==
  IF Authenticated(users, tok, now)
    THEN [_id |-> JWTUser(users, tok)._id,
          Username |-> JWTUser(users, tok).Username,
          isAdmin |-> JWTUser(users, tok).isAdmin]
    ELSE Nobody

-----------------------------------------------------------------------------
(* The Movies collection and the text matching of the search routes *)

Year1999 == <<"1", "9", "9", "9">>

\* three documents of the collection; find returns documents in the order
\* they are stored
Film1 ==
  [_id |-> Movie1, Title |-> <<"A", "b">>, Description |-> <<"c">>,
   Genre |-> <<"d">>, Director |-> <<"e">>, Actors |-> << <<"f">> >>,
   Year |-> Year1999, Featured |-> TRUE]

Film2 ==
  [_id |-> Movie2, Title |-> <<"b", "a">>, Description |-> <<"a">>,
   Genre |-> <<"d">>, Director |-> <<"g">>, Actors |-> << <<"f">>, <<"h">> >>,
   Year |-> <<"2", "0", "0", "1">>, Featured |-> FALSE]

Film3 ==
  [_id |-> "684026918dda30a4fe6c4bda", Title |-> <<"c", ".", "c">>, Description |-> <<"b">>,
   Genre |-> <<"g">>, Director |-> <<"e">>, Actors |-> <<>>,
   Year |-> Year1999, Featured |-> TRUE]

\* the collections the service runs over
MovieLists ==
  {<<>>, <<Film1>>, <<Film2>>, <<Film3>>, <<Film1, Film2>>, <<Film1, Film3>>,
   <<Film2, Film3>>, <<Film1, Film2, Film3>>}

\* the 'i' flag: letters compare by their lower case
LowerCase(c) ==
  IF c = "A" THEN "a" ELSE IF c = "B" THEN "b" ELSE IF c = "C" THEN "c" ELSE c

\* new RegExp(q, 'i') throws a SyntaxError: an unterminated group or class, a
\* quantifier with nothing to repeat
RegExpThrows(q) ==
  \/ \E i \in 1..Len(q) : q[i] \in {"(", ")", "["}
  \/ Len(q) > 0 /\ q[1] = "*"
  \/ \E i \in 1..(Len(q) - 1) : q[i] = "*" /\ q[i + 1] = "*"

\* one pattern character against one character of the text: "." is any
\* character, every other one is itself without regard to case
CharMatches(p, c) == p = "." \/ LowerCase(p) = LowerCase(c)

RECURSIVE MatchHere(_, _)
\* the pattern matches a prefix of the text; x* is any number of x
MatchHere(q, text) ==
  IF q = <<>> THEN TRUE
  ELSE IF Len(q) >= 2 /\ q[2] = "*"
    THEN \E k \in 0..Len(text) :
           /\ \A i \in 1..k : CharMatches(q[1], text[i])
           /\ MatchHere(SubSeq(q, 3, Len(q)), SubSeq(text, k + 1, Len(text)))
  ELSE /\ text # <<>>
       /\ CharMatches(q[1], text[1])
       /\ MatchHere(Tail(q), Tail(text))

\* regex.test(text): the pattern matches somewhere in the text
RegExpTest(q, text) ==
  \E start \in 1..(Len(text) + 1) : MatchHere(q, SubSeq(text, start, Len(text)))

\* { Actors: { $in: [regex] } }: some entry matches
AnyActor(q, m) == \E i \in 1..Len(m.Actors) : RegExpTest(q, m.Actors[i])

\* the $or of /search and /search/paginated
MatchesAnyField(q, m) ==
  \/ RegExpTest(q, m.Title)
  \/ RegExpTest(q, m.Description)
  \/ RegExpTest(q, m.Genre)
  \/ RegExpTest(q, m.Director)
  \/ AnyActor(q, m)

\* no parameter of the query string is given
NoParams ==
  [path |-> <<>>, q |-> NoValue, title |-> NoValue, genre |-> NoValue,
   director |-> NoValue, actor |-> NoValue, year |-> NoValue,
   page |-> NoValue, limit |-> NoValue]

NoPagination ==
  [currentPage |-> 0, totalPages |-> 0, totalResults |-> 0,
   resultsPerPage |-> 0, hasNextPage |-> FALSE, hasPrevPage |-> FALSE,
   skip |-> 0]

\* no request on the Movies routes has been answered
NoQuery ==
  [handler |-> "none", tok |-> NoToken, params |-> NoParams, status |-> 0,
   kind |-> "none", results |-> <<>>, count |-> 0,
   pagination |-> NoPagination, finds |-> 0]

-----------------------------------------------------------------------------
(* The state machine *)

NoRequest ==
  [route |-> "none", tok |-> NoToken, target |-> NoValue, body |-> NoValue,
   movie |-> NoValue, bearer |-> Nobody, authn |-> "MissingToken",
   ownerLives |-> FALSE, before |-> {},
   status |-> 0, out |-> NullBody, steps |-> <<>>, sends |-> 0,
   changed |-> FALSE]

\* the POST /users requests whose store calls interleave
Clients == 1..MaxClients

\* no request of the client has arrived
NoRegistration == [pc |-> "idle", body |-> NoValue, status |-> 0]

\* no favorites request of the client has arrived
NoFavRequest ==
  [pc |-> "idle", op |-> "none", movie |-> NoValue, seen |-> <<>>, status |-> 0]

\* no favorites requests in flight, on a record that starts with no favorites
NoFavRace == [start |-> <<>>, of |-> [c \in Clients |-> NoFavRequest]]

Init ==
  /\ rev \in Revisions
  /\ reg = [c \in Clients |-> NoRegistration]
  /\ fav = NoFavRace
  /\ movies = <<>>
  /\ query = NoQuery
  /\ users \in {{}, {AdminUser}}
  /\ nextId = 1
  /\ tokens = {}
  /\ now = 0
  /\ writes = 0
  /\ last = NoRequest

Idle == last.route = "none"

\* the tokens clients hold after a response: a client that logs in again
\* keeps the new token in place of the one it held for the same subject and
\* issue time, which the server cannot tell apart from it
Held(pool, issued) ==
  {t \in pool : \A n \in issued : t.sub # n.sub \/ t.iat # n.iat} \cup issued

\* one request served from arrival to response; the server handles the next
\* one after this one is answered
Serve(route, tok, target, body, movie, res) ==
  /\ Idle
  /\ res.users # users => writes < MaxWrites
  /\ res.status = 201 => nextId <= MaxUsers
  /\ Cardinality(Held(tokens, res.issued)) <= MaxTokens
  /\ users' = res.users
  /\ nextId' = IF res.status = 201 THEN nextId + 1 ELSE nextId
  /\ tokens' = Held(tokens, res.issued)
  /\ writes' = IF res.users # users THEN writes + 1 ELSE writes
  /\ last' = [route |-> route, tok |-> tok, target |-> target, body |-> body,
              movie |-> movie, bearer |-> Bearer(tok),
              authn |-> JWTFailure(users, tok, now),
              ownerLives |-> OwnerLives(users, tok), before |-> users,
              status |-> res.status,
              out |-> res.body, steps |-> res.steps, sends |-> res.sends,
              changed |-> res.users # users]
  /\ UNCHANGED <<rev, now, reg, fav, movies, query>>

GetRootReq ==
  Serve("GET /", NoToken, NoValue, NoValue, NoValue, Root)

LoginReq ==
  \E name \in LoginNames, pw \in LoginPasswords, loginError \in BOOLEAN :
    Serve("POST /login", NoToken, name, Body(name, pw, NoValue, NoValue, NoValue),
          NoValue, Login(name, pw, loginError))

CatalogReq ==
  \E route \in CatalogRoutes, tok \in TokenInputs :
    Serve("GET " \o route, tok, NoValue, NoValue, NoValue, Catalog(route, tok))

GetUsersReq ==
  \E tok \in TokenInputs :
    Serve("GET /users", tok, NoValue, NoValue, NoValue, GetUsers(tok))

PostUsersReq ==
  \E body \in RegisterBodies :
    Serve("POST /users", NoToken, body.Username, body, NoValue, PostUsers(body))

PutUserReq ==
  \E tok \in TokenInputs, target \in Targets, body \in UpdateBodies :
    Serve("PUT /users/:Username", tok, target, body, NoValue,
          PutUser(tok, target, body))

GetUserReq ==
  \E tok \in TokenInputs, target \in Targets :
    Serve("GET /users/:username", tok, target, NoValue, NoValue,
          GetUser(tok, target))

GetFavoritesReq ==
  \E tok \in TokenInputs, target \in Targets :
    Serve("GET /users/:username/favorites", tok, target, NoValue, NoValue,
          GetFavorites(tok, target))

AddFavoriteReq ==
  \E tok \in TokenInputs, target \in Targets, movie \in MovieInputs :
    Serve("POST /users/:username/movies/:movieId", tok, target, NoValue, movie,
          AddFavorite(tok, target, movie))

RemoveFavoriteReq ==
  \E tok \in TokenInputs, target \in Targets, movie \in MovieInputs :
    Serve("DELETE /users/:username/movies/:movieId", tok, target, NoValue, movie,
          RemoveFavorite(tok, target, movie))

DeleteUserReq ==
  \E tok \in TokenInputs, target \in Targets :
    Serve("DELETE /users/:username", tok, target, NoValue, NoValue,
          DeleteUser(tok, target))

\* the response has gone out and the connection is closed
Done ==
  /\ ~Idle
  /\ last' = NoRequest
  /\ UNCHANGED <<rev, users, nextId, tokens, now, writes, reg, fav, movies, query>>

Next ==
  \/ Done
  \/ GetRootReq
  \/ LoginReq
  \/ CatalogReq
  \/ GetUsersReq
  \/ PostUsersReq
  \/ PutUserReq
  \/ GetUserReq
  \/ GetFavoritesReq
  \/ AddFavoriteReq
  \/ RemoveFavoriteReq
  \/ DeleteUserReq

Spec == Init /\ [][Next]_vars

\* a day passes between two requests
Tick ==
  /\ Idle
  /\ now < MaxTime
  /\ now' = now + 1
  /\ UNCHANGED <<rev, users, nextId, tokens, writes, last, reg, fav, movies, query>>

\* logins and token-gated requests on the seeded account while the clock
\* runs
TimedNext ==
  \/ Tick
  \/ Done
  \/ LoginReq
  \/ GetUsersReq
  \/ GetUserReq
  \/ DeleteUserReq

TimedSpec == Init /\ [][TimedNext]_vars

-----------------------------------------------------------------------------
(* POST /users with its store calls as separate steps: between the await   *)
(* of one call and its continuation the server runs other requests.        *)
(* reg[c].pc is where request c stands:                                    *)
(*   "idle"    not arrived                                                 *)
(*   "lookup"  Users.findOne({ Username }) is pending                      *)
(*   "create"  Users.create({...}) is pending                              *)
(*   "done"    answered, with reg[c].status                                *)

Answered(c, status) == [reg EXCEPT ![c].pc = "done", ![c].status = status]

\* the request arrives; the handler runs up to its first store call
RegArrive(c) ==
  \E body \in RegisterBodies :
    /\ reg[c].pc = "idle"
    /\ reg' = [reg EXCEPT ![c] =
                 IF rev # "D" /\ ~UserBodyValid(body)
                   THEN [pc |-> "done", body |-> body, status |-> 422]
                 ELSE IF rev = "A"
                   THEN [pc |-> "create", body |-> body, status |-> 0]
                 ELSE [pc |-> "lookup", body |-> body, status |-> 0]]
    /\ UNCHANGED <<rev, users, nextId, tokens, now, writes, last, fav, movies, query>>

\* Users.findOne resolves: 400 if it found a user, else Users.create is
\* called
RegLookup(c) ==
  /\ reg[c].pc = "lookup"
  /\ reg' = IF HasUser(users, reg[c].body.Username)
              THEN Answered(c, 400)
              ELSE [reg EXCEPT ![c].pc = "create"]
  /\ UNCHANGED <<rev, users, nextId, tokens, now, writes, last, fav, movies, query>>

\* Users.create resolves with the new document, 201, or rejects with the
\* duplicate-key error: 400 where the handler looks at error.code, else 500
RegCreate(c) ==
  /\ reg[c].pc = "create"
  /\ IF DuplicateKey(users, nextId, reg[c].body.Username)
       THEN /\ reg' = Answered(c, IF rev = "A" THEN 400 ELSE 500)
            /\ UNCHANGED <<users, nextId, writes>>
       ELSE /\ nextId <= MaxUsers
            /\ writes < MaxWrites
            /\ reg' = Answered(c, 201)
            /\ users' = users \cup {NewUser(nextId, RegisterFields(reg[c].body))}
            /\ nextId' = nextId + 1
            /\ writes' = writes + 1
  /\ UNCHANGED <<rev, tokens, now, last, fav, movies, query>>

RaceNext == \E c \in Clients : RegArrive(c) \/ RegLookup(c) \/ RegCreate(c)

RaceSpec == Init /\ [][RaceNext]_vars

-----------------------------------------------------------------------------
(* POST and DELETE /users/:username/movies/:movieId of one user, each with *)
(* its store call as a step of its own.  fav.of[c].pc is where request c   *)
(* stands:                                                                 *)
(*   "idle"    not arrived                                                 *)
(*   "update"  Users.findOneAndUpdate(...) is pending                      *)
(*   "done"    answered, with fav.of[c].status                             *)
(* fav.start is FavoriteMovies of the record before the first request.     *)

\* the lists the record can hold when the requests start
FavStarts == {<<>>, <<Movie1>>, <<Movie1, Movie2>>}

\* the account the requests are about, with the favorites it starts with
FavOwner(f) == [AdminUser EXCEPT !.FavoriteMovies = f]

\* the token the owner got from an earlier login
OwnerToken == generateJWTToken(toJSON(AdminUser), 0)

FavInit ==
  /\ rev \in Revisions
  /\ reg = [c \in Clients |-> NoRegistration]
  /\ \E f \in FavStarts :
       /\ users = {FavOwner(f)}
       /\ fav = [start |-> f, of |-> [c \in Clients |-> NoFavRequest]]
  /\ movies = <<>>
  /\ query = NoQuery
  /\ nextId = 1
  /\ tokens = {OwnerToken}
  /\ now = 0
  /\ writes = 0
  /\ last = NoRequest

FavAnswered(c, status) ==
  [fav EXCEPT !.of[c].pc = "done", !.of[c].status = status]

\* the request arrives: the token gate resolves req.user, then the handler
\* runs validationResult and the ownership check, up to its store call
FavArrive(c) ==
  \E tok \in {OwnerToken, NoToken}, movie \in MovieInputs,
     op \in {"$addToSet", "$pull"} :
    /\ fav.of[c].pc = "idle"
    /\ fav' =
         IF ~Authenticated(users, tok, now)
           THEN [fav EXCEPT !.of[c] = [pc |-> "done", op |-> op, movie |-> movie,
                                       seen |-> <<>>, status |-> 401]]
         ELSE IF Validates /\ ~isMongoId(movie)
           THEN [fav EXCEPT !.of[c] =
                   [pc |-> "done", op |-> op, movie |-> movie,
                    seen |-> JWTUser(users, tok).FavoriteMovies, status |-> 422]]
         ELSE IF ~MayEditFavorites(JWTUser(users, tok), AdminName)
           THEN [fav EXCEPT !.of[c] =
                   [pc |-> "done", op |-> op, movie |-> movie,
                    seen |-> JWTUser(users, tok).FavoriteMovies, status |-> 403]]
         ELSE [fav EXCEPT !.of[c] =
                 [pc |-> "update", op |-> op, movie |-> movie,
                  seen |-> JWTUser(users, tok).FavoriteMovies, status |-> 0]]
    /\ UNCHANGED <<rev, users, nextId, tokens, now, writes, last, reg, movies, query>>

\* the handler writing back the list of req.user with the movie added or
\* removed by itself
FavUpdate_FromRequestUser(c) ==
  /\ fav.of[c].pc = "update"
  /\ LET old == findOne(users, AdminName)
         new == [old EXCEPT !.FavoriteMovies =
                   IF fav.of[c].op = "$addToSet"
                     THEN addToSet(fav.of[c].seen, fav.of[c].movie)
                     ELSE pull(fav.of[c].seen, fav.of[c].movie)]
     IN  users' = Replace(users, old, new)
  /\ fav' = FavAnswered(c, 200)
  /\ UNCHANGED <<rev, nextId, tokens, now, writes, last, reg, movies, query>>

\* Users.findOneAndUpdate resolves: the store reads the document, applies
\* $addToSet or $pull to it and writes it in one step
FavUpdate(c) ==
  /\ fav.of[c].pc = "update"
  /\ users' = UpdateFavorites(AdminName, fav.of[c].movie, fav.of[c].op,
                              <<"update">>).users
  /\ fav' = FavAnswered(c, UpdateFavorites(AdminName, fav.of[c].movie,
                                           fav.of[c].op, <<"update">>).status)
  /\ UNCHANGED <<rev, nextId, tokens, now, writes, last, reg, movies, query>>

FavNext == \E c \in Clients : FavArrive(c) \/ FavUpdate(c)

FavSpec == FavInit /\ [][FavNext]_vars

-----------------------------------------------------------------------------
(* The GET routes over Movies of index.js 655-1591, answered from the      *)
(* collection in movies.  query is the last request and its answer:        *)
(*   handler     the route function express ran                            *)
(*   finds       how many queries it sent to the collection                *)

\* the answer of a route function
Answer(handler, tok, params, status, kind, results, finds) ==
  [handler |-> handler, tok |-> tok, params |-> params, status |-> status,
   kind |-> kind, results |-> results, count |-> Len(results),
   pagination |-> NoPagination, finds |-> finds]

\* path segments
SegMovies == <<"m", "o", "v", "i", "e", "s">>

SegId == <<"i", "d">>

SegFeatured == <<"f", "e", "a", "t", "u", "r", "e", "d">>

SegGenre == <<"g", "e", "n", "r", "e">>

Literal(seg) == [lit |-> TRUE, v |-> seg]

\* a :name segment
Param == [lit |-> FALSE, v |-> <<>>]

\* the /movies routes in the order app.get registers them
MovieRoutes ==
  << [pattern |-> <<Literal(SegMovies)>>, handler |-> "movies"],
     [pattern |-> <<Literal(SegMovies), Param>>, handler |-> "movieByTitle"],
     [pattern |-> <<Literal(SegMovies), Literal(SegId), Param>>,
      handler |-> "movieById"],
     [pattern |-> <<Literal(SegMovies), Literal(SegFeatured)>>,
      handler |-> "featured"],
     [pattern |-> <<Literal(SegMovies), Literal(SegGenre), Param>>,
      handler |-> "moviesByGenre"] >>

\* express matches a path against a route segment by segment
PathMatches(pattern, path) ==
  /\ Len(pattern) = Len(path)
  /\ \A i \in 1..Len(path) :
       IF pattern[i].lit THEN pattern[i].v = path[i] ELSE path[i] # <<>>

\* the router runs the first registered route that matches
Dispatch(path) ==
  IF \E i \in 1..Len(MovieRoutes) : PathMatches(MovieRoutes[i].pattern, path)
    THEN MovieRoutes[CHOOSE i \in 1..Len(MovieRoutes) :
                       /\ PathMatches(MovieRoutes[i].pattern, path)
                       /\ \A j \in 1..(i - 1) :
                            ~PathMatches(MovieRoutes[j].pattern, path)].handler
    ELSE "none"

PathParams(path) == [NoParams EXCEPT !.path = path]

\* GET on a path under /movies
GetMoviesPath(path, tok) ==
  LET handler == Dispatch(path)
      params == PathParams(path)
  IN  IF handler = "none"
        THEN Answer("none", tok, params, 404, "text", <<>>, 0)
      ELSE IF ~Authenticated(users, tok, now)
        THEN Answer(handler, tok, params, 401, "text", <<>>, 0)
      ELSE IF handler = "movies"
        THEN Answer(handler, tok, params, 200, "list", movies, 1)
      ELSE IF handler = "movieByTitle"
        THEN LET found == SelectSeq(movies, LAMBDA m : m.Title = path[2])
             IN  IF found = <<>>
                   THEN Answer(handler, tok, params, 404, "error", <<>>, 1)
                   ELSE Answer(handler, tok, params, 200, "movie",
                               <<found[1]>>, 1)
      ELSE IF handler = "movieById"
        THEN IF ~isMongoId(path[3])
               THEN Answer(handler, tok, params, 422, "errors", <<>>, 0)
               ELSE Answer(handler, tok, params, 404, "error", <<>>, 1)
      ELSE IF handler = "featured"
        THEN Answer(handler, tok, params, 200, "list",
                    SelectSeq(movies, LAMBDA m : m.Featured), 1)
      ELSE IF RegExpThrows(path[3])
        THEN Answer(handler, tok, params, 500, "error", <<>>, 0)
      ELSE Answer(handler, tok, params, 200, "list",
                  SelectSeq(movies, LAMBDA m : RegExpTest(path[3], m.Genre)), 1)

\* GET /search?q=
Search(q, tok) ==
  LET params == [NoParams EXCEPT !.q = q]
  IN  IF ~Authenticated(users, tok, now)
        THEN Answer("search", tok, params, 401, "text", <<>>, 0)
      ELSE IF ~notEmpty(q)
        THEN Answer("search", tok, params, 422, "errors", <<>>, 0)
      ELSE IF RegExpThrows(q)
        THEN Answer("search", tok, params, 500, "error", <<>>, 0)
      ELSE Answer("search", tok, params, 200, "results",
                  SelectSeq(movies, LAMBDA m : MatchesAnyField(q, m)), 1)

\* GET /search/movies?title=
SearchMovies(title, tok) ==
  LET params == [NoParams EXCEPT !.title = title]
  IN  IF ~Authenticated(users, tok, now)
        THEN Answer("searchMovies", tok, params, 401, "text", <<>>, 0)
      ELSE IF ~notEmpty(title)
        THEN Answer("searchMovies", tok, params, 422, "errors", <<>>, 0)
      ELSE IF RegExpThrows(title)
        THEN Answer("searchMovies", tok, params, 500, "error", <<>>, 0)
      ELSE Answer("searchMovies", tok, params, 200, "results",
                  SelectSeq(movies, LAMBDA m : RegExpTest(title, m.Title)), 1)

\* if (title): a parameter that is present and not the empty string
Truthy(v) == v # NoValue /\ v # <<>>

\* whether the document satisfies every entry of searchCriteria
MeetsCriteria(params, m) ==
  /\ Truthy(params.title) => RegExpTest(params.title, m.Title)
  /\ Truthy(params.genre) => RegExpTest(params.genre, m.Genre)
  /\ Truthy(params.director) => RegExpTest(params.director, m.Director)
  /\ Truthy(params.actor) => AnyActor(params.actor, m)
  /\ Truthy(params.year) => m.Year = params.year

\* GET /search/advanced
Advanced(params, tok) ==
  IF ~Authenticated(users, tok, now)
    THEN Answer("advanced", tok, params, 401, "text", <<>>, 0)
  ELSE IF \E f \in {"title", "genre", "director", "actor"} :
            Truthy(params[f]) /\ RegExpThrows(params[f])
    THEN Answer("advanced", tok, params, 500, "error", <<>>, 0)
  ELSE IF \A f \in {"title", "genre", "director", "actor", "year"} :
            ~Truthy(params[f])
    THEN Answer("advanced", tok, params, 400, "error", <<>>, 0)
  ELSE Answer("advanced", tok, params, 200, "results",
              SelectSeq(movies, LAMBDA m : MeetsCriteria(params, m)), 1)

DigitValue(c) ==
  CASE c = "0" -> 0 [] c = "1" -> 1 [] c = "2" -> 2 [] c = "3" -> 3
    [] c = "4" -> 4 [] c = "5" -> 5 [] c = "6" -> 6 [] c = "7" -> 7
    [] c = "8" -> 8 [] c = "9" -> 9

IsDigit(c) == c \in {"0", "1", "2", "3", "4", "5", "6", "7", "8", "9"}

\* how many characters at the start of the text are digits
LeadingDigits(text) ==
  IF \E i \in 1..Len(text) : ~IsDigit(text[i])
    THEN (CHOOSE i \in 1..Len(text) :
            ~IsDigit(text[i]) /\ \A j \in 1..(i - 1) : IsDigit(text[j])) - 1
    ELSE Len(text)

RECURSIVE DecimalValue(_)
DecimalValue(digits) ==
  IF digits = <<>> THEN 0
  ELSE 10 * DecimalValue(SubSeq(digits, 1, Len(digits) - 1))
       + DigitValue(digits[Len(digits)])

\* parseInt(v): an optional sign and the digits that follow it, NaN when
\* there are none or the parameter is absent
parseInt(v) ==
  LET text == FieldValue(v)
      signed == text # <<>> /\ text[1] \in {"-", "+"}
      rest == IF signed THEN Tail(text) ELSE text
      k == LeadingDigits(rest)
  IN  IF v = NoValue \/ k = 0 THEN [nan |-> TRUE, n |-> 0]
      ELSE [nan |-> FALSE,
            n |-> IF signed /\ text[1] = "-"
                    THEN 0 - DecimalValue(SubSeq(rest, 1, k))
                    ELSE DecimalValue(SubSeq(rest, 1, k))]

\* parseInt(v) || default: NaN and 0 are falsy
OrDefault(parsed, default) ==
  IF parsed.nan \/ parsed.n = 0 THEN default ELSE parsed.n

DefaultPage == 1

DefaultLimit == 20

\* Math.ceil(a / b) for b # 0
Ceil(a, b) ==
  IF b > 0 THEN (a + b - 1) \div b ELSE 0 - (a \div (0 - b))

Abs(n) == IF n < 0 THEN 0 - n ELSE n

Min(a, b) == IF a < b THEN a ELSE b

\* find(criteria).skip(skip).limit(limit) over the matching documents; a
\* negative limit is taken by the driver as that many documents in one batch
PageOf(matching, skip, limit) ==
  SubSeq(matching, skip + 1, Min(skip + Abs(limit), Len(matching)))

\* GET /search/paginated?q=&page=&limit=
Paginated(q, pageParam, limitParam, tok) ==
  LET params == [NoParams EXCEPT !.q = q, !.page = pageParam,
                                 !.limit = limitParam]
      page == OrDefault(parseInt(pageParam), DefaultPage)
      limit == OrDefault(parseInt(limitParam), DefaultLimit)
      skip == (page - 1) * limit
      matching == SelectSeq(movies, LAMBDA m : MatchesAnyField(q, m))
      totalPages == Ceil(Len(matching), limit)
      pagination ==
        [currentPage |-> page, totalPages |-> totalPages,
         totalResults |-> Len(matching), resultsPerPage |-> limit,
         hasNextPage |-> page < totalPages, hasPrevPage |-> page > 1,
         skip |-> skip]
  IN  IF ~Authenticated(users, tok, now)
        THEN Answer("paginated", tok, params, 401, "text", <<>>, 0)
      ELSE IF ~notEmpty(q)
        THEN Answer("paginated", tok, params, 422, "errors", <<>>, 0)
      ELSE IF RegExpThrows(q)
        THEN Answer("paginated", tok, params, 500, "error", <<>>, 0)
      ELSE IF skip < 0
        THEN [Answer("paginated", tok, params, 500, "error", <<>>, 2)
                EXCEPT !.pagination = pagination]
      ELSE [Answer("paginated", tok, params, 200, "results",
                   PageOf(matching, skip, limit), 2)
              EXCEPT !.pagination = pagination]

\* what clients send
MoviePaths ==
  {<<SegMovies>>, <<SegMovies, SegFeatured>>, <<SegMovies, <<"A", "b">> >>,
   <<SegMovies, <<"a", "b">> >>, <<SegMovies, SegId, <<"x">> >>,
   <<SegMovies, SegGenre, <<"D">> >>, <<SegGenre>>}

QueryInputs ==
  {NoValue, <<>>, <<"a">>, <<"B">>, <<"d">>, <<"f">>, <<".">>, <<"(">>,
   <<"b", "*">>, <<"c", ".", "c">>}

PageInputs ==
  {NoValue, <<"0">>, <<"a">>, <<"1">>, <<"2">>, <<"3">>, <<"2", "x">>,
   <<"-", "1">>}

LimitInputs == {NoValue, <<"0">>, <<"a">>, <<"1">>, <<"2">>, <<"-", "1">>}

AdvancedInputs ==
  [path : {<<>>}, q : {NoValue}, title : {NoValue, <<>>, <<"a">>, <<"(">>},
   genre : {NoValue, <<"D">>}, director : {NoValue, <<"e">>},
   actor : {NoValue, <<"f">>}, year : {NoValue, Year1999},
   page : {NoValue}, limit : {NoValue}]

CatalogTokens == {OwnerToken, NoToken}

CatalogInit ==
  /\ rev = "C"
  /\ reg = [c \in Clients |-> NoRegistration]
  /\ fav = NoFavRace
  /\ users = {AdminUser}
  /\ nextId = 1
  /\ tokens = {OwnerToken}
  /\ now = 0
  /\ writes = 0
  /\ last = NoRequest
  /\ movies \in MovieLists
  /\ query = NoQuery

\* a request on the Movies routes is answered, one at a time; none of them
\* writes
Answered_Query(answer) ==
  /\ query = NoQuery
  /\ query' = answer
  /\ UNCHANGED <<rev, users, nextId, tokens, now, writes, last, reg, fav, movies>>

MoviesPathReq ==
  \E path \in MoviePaths, tok \in CatalogTokens :
    Answered_Query(GetMoviesPath(path, tok))

SearchReq ==
  \E q \in QueryInputs, tok \in CatalogTokens : Answered_Query(Search(q, tok))

SearchMoviesReq ==
  \E title \in QueryInputs, tok \in CatalogTokens :
    Answered_Query(SearchMovies(title, tok))

AdvancedReq ==
  \E params \in AdvancedInputs, tok \in CatalogTokens :
    Answered_Query(Advanced(params, tok))

PaginatedReq ==
  \E q \in QueryInputs, page \in PageInputs, limit \in LimitInputs,
     tok \in CatalogTokens :
    Answered_Query(Paginated(q, page, limit, tok))

\* the response has gone out
QueryDone ==
  /\ query # NoQuery
  /\ query' = NoQuery
  /\ UNCHANGED <<rev, users, nextId, tokens, now, writes, last, reg, fav, movies>>

CatalogNext ==
  \/ QueryDone
  \/ MoviesPathReq
  \/ SearchReq
  \/ SearchMoviesReq
  \/ AdvancedReq
  \/ PaginatedReq

CatalogSpec == CatalogInit /\ [][CatalogNext]_vars


-----------------------------------------------------------------------------
(* What the last request was, read from the record of it *)

PersonalRoutes ==
  {"GET /users/:username", "PUT /users/:Username",
   "GET /users/:username/favorites", "POST /users/:username/movies/:movieId",
   "DELETE /users/:username/movies/:movieId", "DELETE /users/:username"}

PublicRoutes == {"GET /", "POST /login", "POST /users"}

\* the token presented was verified and resolved to a user
LastAuthenticated == last.bearer._id # -1

LastSucceeded == last.status \in {200, 201}

\* the handler returned at its ownership / admin check
LastDenied ==
  /\ Len(last.steps) > 0
  /\ last.steps[Len(last.steps)] = "authorize"

\* the response carries a user record, or part of one
LastReturnsRecord == last.out.kind \in {"user", "users", "favorites", "login"}

\* an authenticated requester who is neither the target nor an admin
LastStranger ==
  /\ last.route \in PersonalRoutes
  /\ LastAuthenticated
  /\ ~last.bearer.isAdmin
  /\ last.bearer.Username # last.target

\* an authenticated requester who is the target or an admin
LastOwnerOrAdmin ==
  /\ last.route \in PersonalRoutes
  /\ LastAuthenticated
  /\ (last.bearer.isAdmin \/ last.bearer.Username = last.target)

-----------------------------------------------------------------------------
(* C1 *)

\* C1: a requester who is authenticated, not an admin and not the target is
\* refused on each personal-data endpoint: the response is no success, it
\* carries no user record, and the store is as it was.
C1_StrangerIsRefused ==
  LastStranger =>
    /\ ~LastSucceeded
    /\ ~LastReturnsRecord
    /\ ~last.changed

\* a non-admin asks to delete another user's existing account and gets 403
C1_Witness ==
  /\ LastStranger
  /\ last.route = "DELETE /users/:username"
  /\ HasUser(users, last.target)
  /\ last.status = 403


-----------------------------------------------------------------------------
(* C2 *)

\* C2: the owner of the target record, and an admin for every target, is
\* never refused at the ownership check of a personal-data endpoint.
C2_OwnerOrAdminNeverDenied == LastOwnerOrAdmin => ~LastDenied

-----------------------------------------------------------------------------
(* C3 *)

\* C3: a request refused at the ownership / admin check is answered 403, and
\* 401 answers only requests whose token did not authenticate.
C3_DenialIs403 ==
  /\ LastDenied => last.status = 403
  /\ last.status = 401 => ~LastAuthenticated

-----------------------------------------------------------------------------
(* C4 *)

\* C4: GET /users is refused to every authenticated requester who is not an
\* admin, and returns no user records to them.
C4_ListIsAdminOnly ==
  (last.route = "GET /users" /\ LastAuthenticated /\ ~last.bearer.isAdmin) =>
    /\ ~LastSucceeded
    /\ ~LastReturnsRecord

-----------------------------------------------------------------------------
(* C5 *)

InSteps(stage) == \E i \in 1..Len(last.steps) : last.steps[i] = stage

\* C5: on every route but GET /, POST /login and POST /users the handler is
\* entered only after passport verified the bearer token.
C5_HandlerBehindTokenGate ==
  (last.route \notin PublicRoutes \cup {"none"} /\ InSteps("handler")) =>
    /\ last.steps[1] = "authenticate"
    /\ LastAuthenticated

-----------------------------------------------------------------------------
(* C6 *)

\* the login request names an existing user and carries the password that
\* user last supplied
LastLoginCorrect ==
  /\ last.route = "POST /login"
  /\ HasUser(users, last.target)
  /\ last.body.Password = findOne(users, last.target).Password.of

\* C6: a login with an existing user's username and current password is
\* answered 200 with a token, whatever registrations, updates and favourites
\* operations came before.
C6_CorrectLoginSucceeds ==
  LastLoginCorrect => (last.status = 200 /\ last.out.kind = "login")

-----------------------------------------------------------------------------
(* C7 *)

GenericLoginError ==
  [kind |-> "loginError", message |-> "Something is not right", user |-> FALSE]

\* a field is missing, the username is unknown, or the password is wrong
LastLoginBad ==
  /\ last.route = "POST /login"
  /\ \/ last.body.Username = NoValue
     \/ last.body.Password = NoValue
     \/ ~HasUser(users, last.target)
     \/ ~LastLoginCorrect

\* C7: a login with a missing field, an unknown username or a wrong password
\* is answered 400 with one and the same body.
C7_LoginFailureIsGeneric ==
  LastLoginBad => (last.status = 400 /\ last.out = GenericLoginError)

\* a wrong password for a user that exists
C7_Witness ==
  /\ last.route = "POST /login"
  /\ HasUser(users, last.target)
  /\ last.body.Password # NoValue
  /\ last.body.Password # findOne(users, last.target).Password.of
  /\ last.status = 400

-----------------------------------------------------------------------------
(* C8 *)

\* C8: the Password every record stores is a hash, never the string supplied.
C8_PasswordIsHashed == \A u \in users : IsHash(u.Password)

-----------------------------------------------------------------------------
(* C9 *)

\* the user objects a client can read in the response body, the payload of
\* a token it carries included
BodyUsers(out) ==
  IF out.kind = "user" THEN {out.user}
  ELSE IF out.kind = "login" THEN {out.user, out.token.payload}
  ELSE IF out.kind = "users" THEN out.users
  ELSE {}

-----------------------------------------------------------------------------
(* C10 *)

\* C10: the token of a successful login has the user's Username as subject
\* and, presented at once, authenticates as that user's stored record.
C10_TokenResolvesToUser ==
  (last.route = "POST /login" /\ last.status = 200 /\ last.out.kind = "login") =>
    /\ HasUser(users, last.target)
    /\ last.out.token.sub = findOne(users, last.target).Username
    /\ Authenticated(users, last.out.token, now)
    /\ JWTUser(users, last.out.token) = findOne(users, last.target)
    /\ last.out.token \in tokens

\* a login answered 200 for a user whose profile was updated before
C10_Witness ==
  /\ last.route = "POST /login"
  /\ last.status = 200
  /\ last.out.kind = "login"
  /\ writes >= 2
  /\ ~findOne(users, last.target).isAdmin

-----------------------------------------------------------------------------
(* C11 *)

\* the request passed through passport.authenticate("jwt")
LastGated == InSteps("authenticate")

\* the token presented was issued by a login, to a user whose record has
\* been deleted since
LastTokenOfDeleted ==
  /\ last.tok # NoToken
  /\ last.tok.sig = jwtSecret
  /\ ~last.ownerLives

\* C11: a token issued to a user is refused with 401 on every route behind
\* the token gate in every state after that user's record was deleted.
C11_DeletedUsersTokenFails ==
  (LastGated /\ LastTokenOfDeleted) => last.status = 401

-----------------------------------------------------------------------------
(* C12 *)

\* a request that presented a token at the token gate
LastPresented == LastGated /\ last.tok # NoToken

-----------------------------------------------------------------------------
(* C13 *)

\* C13: at the token gate a missing token, a signature that does not verify,
\* an expired token and a subject without a record are all answered 401
\* with one and the same body, before the handler and with the store left
\* alone; a token signed with another secret is never let through.
C13_OneKindOf401 ==
  /\ (LastGated /\ last.authn # "none") =>
       /\ last.status = 401
       /\ last.out = Text("Unauthorized")
       /\ last.steps = <<"authenticate">>
       /\ ~last.changed
  /\ (LastPresented /\ last.tok.sig # jwtSecret) => last.status = 401

\* an expired token of a user that exists, refused
C13_Witness ==
  /\ LastGated
  /\ last.authn = "Expired"
  /\ HasUser(users, last.tok.sub)
  /\ last.status = 401

-----------------------------------------------------------------------------
(* C14 *)

\* C14: a token issued by a login passes the token gate for as long as the
\* user it was issued to has a record and the token has not expired,
\* whatever was done to the store since it was issued.
C14_TokenValidWhileUserExists ==
  (/\ LastPresented
   /\ last.tok.sig = jwtSecret
   /\ last.ownerLives
   /\ ~Expired(last.tok, now))
  => last.authn = "none"

-----------------------------------------------------------------------------
(* C15 *)

\* a registration that passes the validators of the route, where it has any,
\* for a username that has a record
LastDuplicateRegistration ==
  /\ last.route = "POST /users"
  /\ HasUser(last.before, last.body.Username)
  /\ (rev = "D" \/ UserBodyValid(last.body))

-----------------------------------------------------------------------------
(* C16 *)

\* the requests answered 201 for the username
Registered(name) ==
  {c \in Clients : reg[c].status = 201 /\ reg[c].body.Username = name}

-----------------------------------------------------------------------------
(* C17 *)

\* an update of an existing user to a username that another record has
LastCollidingUpdate ==
  /\ last.route = "PUT /users/:Username"
  /\ last.body.Username # last.target
  /\ HasUser(last.before, last.target)
  /\ HasUser(last.before, last.body.Username)

-----------------------------------------------------------------------------
(* C18 *)

\* the stages that call the Users collection
StoreSteps == {"find", "create", "update", "delete"}

\* the last request went to a route that declares validators and its
\* parameters or body fail them
LastInvalidInput ==
  \/ /\ last.route = "POST /users"
     /\ rev # "D"
     /\ ~UserBodyValid(last.body)
  \/ /\ last.route = "PUT /users/:Username"
     /\ Validates
     /\ ~UpdateValid(last.target, last.body)
  \/ /\ last.route \in {"POST /users/:username/movies/:movieId",
                        "DELETE /users/:username/movies/:movieId"}
     /\ Validates
     /\ ~isMongoId(last.movie)

\* the handler stopped at validationResult: no ownership check, no call on
\* the Users collection, the store as it was
StoppedAtValidation ==
  /\ last.status = 422
  /\ ~InSteps("authorize")
  /\ \A st \in StoreSteps : ~InSteps(st)
  /\ users = last.before

\* C18 as stated: on a route that declares validators, a request with invalid
\* parameters or body is answered 422 whatever its token and whoever sends
\* it, before any authentication or authorization logic, with no ownership
\* check and no store access.
C18_InvalidBeforeAuthentication ==
  LastInvalidInput => (StoppedAtValidation /\ ~InSteps("authenticate"))

\* C18 amended: on a route that declares validators, a request with invalid
\* parameters or body is answered 401 when the route is behind the token gate
\* and the token does not authenticate; otherwise it is answered 422 by the
\* handler, after authentication on a gated route, with no ownership check, no
\* call on the Users collection and the store unchanged.
C18_InvalidAfterAuthentication ==
  LastInvalidInput =>
    IF last.route # "POST /users" /\ last.authn # "none"
      THEN last.status = 401 /\ last.steps = <<"authenticate">>
      ELSE /\ StoppedAtValidation
           /\ last.route # "POST /users" => InSteps("authenticate")

\* an authenticated requester sends an invalid body to the profile of another
\* user, whom the ownership check would refuse, and is answered 422
C18_Witness ==
  /\ LastInvalidInput
  /\ last.route = "PUT /users/:Username"
  /\ last.authn = "none"
  /\ last.bearer.Username # last.target
  /\ ~last.bearer.isAdmin
  /\ last.status = 422

-----------------------------------------------------------------------------
(* C19 *)

\* the rule of the registration validators on a stored Username
UsernameWellFormed(name) ==
  isLength(name, MinUsernameLen) /\ isAlphanumeric(name)

LastRegistration == last.route = "POST /users"

\* C19: registration accepts a record only if Username has at least 5
\* characters and is alphanumeric, Password is non-empty and Email is valid;
\* any other input is answered 422 and creates no record, so every stored
\* username has at least 5 alphanumeric characters.
C19_RegistrationIsValidated ==
  /\ (LastRegistration /\ last.status = 201) => UserBodyValid(last.body)
  /\ (LastRegistration /\ ~UserBodyValid(last.body)) =>
       (last.status = 422 /\ users = last.before)
  /\ \A u \in users : UsernameWellFormed(u.Username)

-----------------------------------------------------------------------------
(* C20 *)

FavoriteRoutes ==
  {"POST /users/:username/movies/:movieId",
   "DELETE /users/:username/movies/:movieId"}

\* the last request was an add or a remove that updated the record of an
\* existing user
LastFavoritesEdit ==
  /\ last.route \in FavoriteRoutes
  /\ last.status = 200
  /\ InSteps("update")
  /\ HasUser(last.before, last.target)

LastAdd ==
  LastFavoritesEdit /\ last.route = "POST /users/:username/movies/:movieId"

LastRemove ==
  LastFavoritesEdit /\ last.route = "DELETE /users/:username/movies/:movieId"

\* the favorites of the target before the request and after it
FavoritesBefore == findOne(last.before, last.target).FavoriteMovies

FavoritesAfter ==
  (CHOOSE u \in users : u._id = findOne(last.before, last.target)._id).FavoriteMovies

\* how often x occurs in the list
Count(s, x) == Cardinality({i \in 1..Len(s) : s[i] = x})

OtherMoviesKept ==
  \A x \in (MongoIds \cup {BadMovie}) \ {last.movie} :
    Count(FavoritesAfter, x) = Count(FavoritesBefore, x)

\* C20: a user's favorites behave as a set: after a successful add of m, m
\* is in FavoriteMovies exactly once; adding m when already present leaves
\* the list unchanged; after a successful remove of m, m is absent; removing
\* an absent m changes nothing; neither adds or removes any other id.
C20_FavoritesBehaveAsSet ==
  /\ LastAdd =>
       /\ Count(FavoritesAfter, last.movie) = 1
       /\ InSeq(FavoritesBefore, last.movie) => FavoritesAfter = FavoritesBefore
       /\ OtherMoviesKept
  /\ LastRemove =>
       /\ Count(FavoritesAfter, last.movie) = 0
       /\ ~InSeq(FavoritesBefore, last.movie) => FavoritesAfter = FavoritesBefore
       /\ OtherMoviesKept

-----------------------------------------------------------------------------
(* C21 *)

\* the requests whose findOneAndUpdate has resolved
Applied == {c \in Clients : fav.of[c].pc = "done" /\ fav.of[c].status = 200}

\* the list after the update of request c on list l
ApplyFav(c, l) ==
  IF fav.of[c].op = "$addToSet" THEN addToSet(l, fav.of[c].movie)
  ELSE pull(l, fav.of[c].movie)

RECURSIVE SequentialResults(_, _)
\* the lists the updates of the requests in S give when applied to l one
\* after the other, in every order
SequentialResults(S, l) ==
  IF S = {} THEN {l}
  ELSE UNION {SequentialResults(S \ {c}, ApplyFav(c, l)) : c \in S}

\* C21: for every interleaving of concurrent favorites requests on the same
\* user, FavoriteMovies equals the result of applying the updates that have
\* resolved in some sequential order; no update is lost.
C21_FavoritesUpdatesAreAtomic ==
  \A u \in users :
    u.FavoriteMovies \in SequentialResults(Applied, fav.start)

\* two requests in flight at once, an add and a remove of different movies,
\* both arrived before either update resolved, both answered 200
C21_Witness ==
  \E c, d \in Clients :
    /\ c # d
    /\ {c, d} \subseteq Applied
    /\ fav.of[c].op = "$addToSet" /\ fav.of[d].op = "$pull"
    /\ fav.of[c].movie = Movie2 /\ fav.of[d].movie = Movie1
    /\ fav.start = <<Movie1>>
    /\ fav.of[c].seen = <<Movie1>> /\ fav.of[d].seen = <<Movie1>>
    /\ \A u \in users : u.FavoriteMovies = <<Movie2>>

-----------------------------------------------------------------------------
(* C22 *)

\* C22: a token issued to user record U never makes a request run with the
\* identity of another user record, whatever logins, changes of Username,
\* deletions and registrations came before.
C22_TokenRunsAsItsOwner ==
  (LastPresented /\ last.authn = "none") =>
    last.bearer._id = last.tok.payload._id

-----------------------------------------------------------------------------
(* C23 *)

LastLogin == last.route = "POST /login"

\* C23: on each path through the POST /login handler (authentication error,
\* no user, req.login error, success) the handler sends a response once and
\* never a second one.
C23_LoginAnswersOnce == LastLogin => last.sends = 1

-----------------------------------------------------------------------------
(* C24 *)

\* profile fetch, favorites list, add and remove, account deletion
TargetRoutes ==
  {"GET /users/:username", "GET /users/:username/favorites",
   "POST /users/:username/movies/:movieId",
   "DELETE /users/:username/movies/:movieId", "DELETE /users/:username"}

\* the last request passed the gate, validation and the ownership check, and
\* the handler's store call found no record under the target username
LastTargetMissing ==
  /\ last.route \in TargetRoutes
  /\ \E st \in StoreSteps : InSteps(st)
  /\ ~HasUser(last.before, last.target)

\* C24: an operation whose target username has no record is answered 404,
\* never 200, and creates or modifies no record.
C24_MissingTargetIs404 ==
  LastTargetMissing => (last.status = 404 /\ users = last.before)

-----------------------------------------------------------------------------
(* C25 *)

GetRoutes ==
  {"GET /", "GET /users", "GET /users/:username",
   "GET /users/:username/favorites"}
  \cup {"GET " \o route : route \in CatalogRoutes}

\* the last request was a login, a GET, or was answered with one of the
\* statuses of a refusal
LastNotMutating ==
  \/ last.route = "POST /login"
  \/ last.route \in GetRoutes
  \/ last.status \in {400, 401, 403, 404, 422}

\* C25: login (successful or failed), every GET route, and every request
\* answered 400, 401, 403, 404 or 422 leave all records exactly as they were
\* (the handlers have no call that writes a movie record at all).
C25_RefusalsLeaveStoreUnchanged ==
  LastNotMutating => (users = last.before /\ ~last.changed)

\* a profile update of an existing record refused by the ownership check,
\* with a body that would have changed the record
C25_Witness ==
  /\ last.route = "PUT /users/:Username"
  /\ InSteps("authorize")
  /\ last.status \in {400, 403}
  /\ HasUser(users, last.target)
  /\ last.body.Username # last.target
  /\ users = last.before

-----------------------------------------------------------------------------
(* C26 *)

\* the record of the target before the last request, and the record with the
\* same _id after it
TargetBefore == findOne(last.before, last.target)

TargetAfter == CHOOSE u \in users : u._id = TargetBefore._id

\* every record but the target's is as it was
OthersKept ==
  /\ \E u \in users : u._id = TargetBefore._id
  /\ users \ {TargetAfter} = last.before \ {TargetBefore}

LastProfileUpdate ==
  /\ last.route = "PUT /users/:Username"
  /\ last.status = 200
  /\ InSteps("update")
  /\ HasUser(last.before, last.target)

LastRegistered == LastRegistration /\ last.status = 201

\* C26: a successful PUT /users/:Username changes only Username, Password,
\* Email and Birthday of the record named in the URL; favorites add and
\* remove change only FavoriteMovies of that record; registration sets only
\* Username, Password, Email and Birthday; no other record changes, and no
\* request makes a user an admin.
C26_MutationsTouchOwnFields ==
  /\ LastProfileUpdate =>
       /\ OthersKept
       /\ TargetAfter.FavoriteMovies = TargetBefore.FavoriteMovies
       /\ TargetAfter.isAdmin = TargetBefore.isAdmin
  /\ LastFavoritesEdit =>
       /\ OthersKept
       /\ \A f \in {"Username", "Password", "Email", "Birthday", "isAdmin"} :
            TargetAfter[f] = TargetBefore[f]
  /\ LastRegistered =>
       \E u \in users :
         /\ u \notin last.before
         /\ users = last.before \cup {u}
         /\ u.FavoriteMovies = <<>>
         /\ ~u.isAdmin
  /\ \A u \in users : u.isAdmin => u = AdminUser \/ u._id = AdminUser._id

-----------------------------------------------------------------------------
(* C27 *)

LastFeaturedRequest ==
  /\ query.params.path = <<SegMovies, SegFeatured>>
  /\ query.tok # NoToken
  /\ query.status # 401

\* C27: GET /movies/featured, for an authenticated requester, is served by
\* the featured-movies handler and returns 200 with exactly the movies whose
\* Featured flag is true; the GET /movies/:title route does not capture it.
C27_FeaturedReachesItsHandler ==
  LastFeaturedRequest =>
    /\ query.handler = "featured"
    /\ query.status = 200
    /\ query.results = SelectSeq(movies, LAMBDA m : m.Featured)

-----------------------------------------------------------------------------
(* C28 *)

\* the last request was a paginated search that got as far as computing the
\* page
LastPaginated ==
  /\ query.handler = "paginated"
  /\ query.pagination # NoPagination

\* the movies the query matches, in stored order
AllMatching == SelectSeq(movies, LAMBDA m : MatchesAnyField(query.params.q, m))

RECURSIVE PagesUpTo(_, _)
\* what pages 1..n return for the query and limit of the last request, one
\* after the other
PagesUpTo(n, limit) ==
  IF n <= 0 THEN <<>>
  ELSE PagesUpTo(n - 1, limit) \o PageOf(AllMatching, (n - 1) * limit, limit)

\* a parameter that is absent, zero or not a number
FallsBack(v) == v \in {NoValue, <<"0">>, <<"a">>}

\* C28: for every query with M matching movies and every integer page and
\* limit, skip = (page - 1) * limit is non-negative, totalPages is
\* ceil(M / limit), hasNextPage is page < totalPages, hasPrevPage is page > 1,
\* a page has at most limit results, pages 1..totalPages together return
\* every matching movie exactly once, and an absent, zero or non-numeric page
\* or limit falls back to 1 and 20.
C28_PaginationIsConsistent ==
  LastPaginated =>
    LET pg == query.pagination
        M == Len(AllMatching)
    IN  /\ query.status = 200
        /\ pg.skip = (pg.currentPage - 1) * pg.resultsPerPage
        /\ pg.skip >= 0
        /\ pg.totalResults = M
        /\ pg.totalPages * pg.resultsPerPage >= M
        /\ (pg.totalPages - 1) * pg.resultsPerPage < M \/ pg.totalPages = 0
        /\ pg.totalPages >= 0
        /\ pg.hasNextPage <=> pg.currentPage < pg.totalPages
        /\ pg.hasPrevPage <=> pg.currentPage > 1
        /\ Len(query.results) <= pg.resultsPerPage
        /\ PagesUpTo(pg.totalPages, pg.resultsPerPage) = AllMatching
        /\ FallsBack(query.params.page) => pg.currentPage = DefaultPage
        /\ FallsBack(query.params.limit) => pg.resultsPerPage = DefaultLimit

-----------------------------------------------------------------------------
(* C29 *)

\* text contains q as a substring, letters compared without regard to case
Contains(q, text) ==
  \E start \in 0..(Len(text) - Len(q)) :
    \A i \in 1..Len(q) : LowerCase(q[i]) = LowerCase(text[start + i])

\* the movie satisfies every filter the request supplies
SatisfiesFilters(params, m) ==
  /\ Truthy(params.title) => Contains(params.title, m.Title)
  /\ Truthy(params.genre) => Contains(params.genre, m.Genre)
  /\ Truthy(params.director) => Contains(params.director, m.Director)
  /\ Truthy(params.actor) =>
       \E i \in 1..Len(m.Actors) : Contains(params.actor, m.Actors[i])
  /\ Truthy(params.year) => m.Year = params.year

NoFilterSupplied(params) ==
  \A f \in {"title", "genre", "director", "actor", "year"} : ~Truthy(params[f])

LastAdvanced == query.handler = "advanced" /\ query.status # 401

\* C29: advanced search returns exactly the movies that satisfy all supplied
\* filters (title, genre, director, actor, year) together, with count equal
\* to the number of results; a request with none of the five filters is
\* answered 400 and performs no store query.
C29_AdvancedSearchIsConjunction ==
  LastAdvanced =>
    IF NoFilterSupplied(query.params)
      THEN query.status = 400 /\ query.finds = 0
      ELSE /\ query.status = 200
           /\ query.results =
                SelectSeq(movies, LAMBDA m : SatisfiesFilters(query.params, m))
           /\ query.count = Len(query.results)

-----------------------------------------------------------------------------
(* C30 *)

\* at least one of Title, Description, Genre name, Director name or an
\* Actors entry contains q
ContainedInAnyField(q, m) ==
  \/ Contains(q, m.Title)
  \/ Contains(q, m.Description)
  \/ Contains(q, m.Genre)
  \/ Contains(q, m.Director)
  \/ \E i \in 1..Len(m.Actors) : Contains(q, m.Actors[i])

LastTitleSearch ==
  /\ query.handler = "searchMovies"
  /\ query.status # 401
  /\ Truthy(query.params.title)

LastGeneralSearch ==
  /\ query.handler = "search"
  /\ query.status # 401
  /\ Truthy(query.params.q)

\* C30: for every non-empty query string q, also one with characters such as
\* '.', '*', '(' or '[', GET /search/movies returns exactly the movies whose
\* Title contains q as a case-insensitive substring, GET /search exactly the
\* movies of which Title, Description, Genre name, Director name or an Actors
\* entry contains q, and count is the number of results.
C30_SearchIsSubstringMatch ==
  /\ LastTitleSearch =>
       /\ query.status = 200
       /\ query.results =
            SelectSeq(movies, LAMBDA m : Contains(query.params.title, m.Title))
       /\ query.count = Len(query.results)
  /\ LastGeneralSearch =>
       /\ query.status = 200
       /\ query.results =
            SelectSeq(movies, LAMBDA m : ContainedInAnyField(query.params.q, m))
       /\ query.count = Len(query.results)

=============================================================================
